---- MODULE Spec2Model ----
(***************************************************************************)
(* Model of p2.cpp: the CSE driver CommonSubexpressionElimination and its  *)
(* sub-passes (runCSEBasic, SimplifyInstructionPass,                       *)
(* EliminatRedundantLoadPass, EliminateLoadAndStorePass) working on one    *)
(* function of an LLVM module.                                             *)
(*                                                                         *)
(* Values are numbers: the function's arguments first, then the            *)
(* instructions.  A block is the sequence of the ids of its instructions,  *)
(* an iterator into a block is an index into that sequence (Len+1 is       *)
(* end()).  Erasing the node at index k moves every later node one index   *)
(* down, so an iterator that pointed at the node after the erased one has  *)
(* index k afterwards.                                                     *)
(***************************************************************************)
EXTENDS Integers, Sequences, FiniteSets, TLC

VARIABLES inst, blocks, cfg, erased, pc, todo, fi, bbi, it, cur, cnt, runs,
          visited, merged, inst0, blocks0, erased0, dead0, entry, matchres

vars == <<inst, blocks, cfg, erased, pc, todo, fi, bbi, it, cur, cnt, runs,
          visited, merged, inst0, blocks0, erased0, dead0, entry, matchres>>

\* Bounds of the model.
MaxInsts == 3
MaxBlocks == 3
MaxRuns == 2
MaxOperands == 2
MaxMemInsts == 4

----------------------------------------------------------------------------
\* The values that are not instructions: two pointer arguments, an integer
\* argument and the integer constant zero.
PtrArgs == {1, 2}
IntArgs == {3}
Zero == Cardinality(PtrArgs \cup IntArgs) + 1
Args == PtrArgs \cup IntArgs \cup {Zero}
FirstId == Cardinality(Args) + 1
NoValue == 0

Types == {"i32", "ptr"}

Instr(op, ty, ops, vol) == [op |-> op, ty |-> ty, ops |-> ops, vol |-> vol]

\* Value::getType
TypeOf(f, v) ==
    IF v \in PtrArgs THEN "ptr"
    ELSE IF v \in IntArgs \cup {Zero} THEN "i32"
    ELSE f[v].ty

isLoad(x) == x.op = "load"
isStore(x) == x.op = "store"
isTerminator(x) == x.op \in {"ret", "br"}

\* Instruction::mayHaveSideEffects: stores, calls and volatile accesses.
mayHaveSideEffects(x) == x.op \in {"store", "call"} \/ x.vol

\* ignoreForCSE (the model has no alloca, fcmp or va_arg)
ignoreForCSE(x) == isLoad(x) \/ isStore(x) \/ x.op = "call" \/ isTerminator(x)

\* The loop of isLiteralMatch with `c > 0` for `c >= 0`: the first operand is
\* never compared.
RECURSIVE OperandsMatchFrom_SkipsFirst(_, _, _)
OperandsMatchFrom_SkipsFirst(a, b, c) ==
    IF c < 2 THEN TRUE
    ELSE IF a.ops[c] # b.ops[c] THEN FALSE
    ELSE OperandsMatchFrom_SkipsFirst(a, b, c - 1)

\* The loop of isLiteralMatch: c runs from the last operand down to the first.
RECURSIVE OperandsMatchFrom(_, _, _)
OperandsMatchFrom(a, b, c) ==
    IF c < 1 THEN TRUE
    ELSE IF a.ops[c] # b.ops[c] THEN FALSE
    ELSE OperandsMatchFrom(a, b, c - 1)

isLiteralMatch(a, b) ==
    IF a.op = b.op /\ a.ty = b.ty /\ Len(a.ops) = Len(b.ops)
    THEN OperandsMatchFrom(a, b, Len(a.ops))
    ELSE FALSE

\* The instructions still in the function.
Live(bs) == UNION {{bs[b][k] : k \in 1..Len(bs[b])} : b \in 1..Len(bs)}

\* Value::use_empty: no instruction in the function has v as an operand.
Users(f, bs, v) == {u \in Live(bs) : \E k \in 1..Len(f[u].ops) : f[u].ops[k] = v}
use_empty(f, bs, v) == Users(f, bs, v) = {}

\* shouldRemoveTrivialDeadCode without the use_empty test.
shouldRemoveTrivialDeadCode_IgnoresUses(f, bs, i) ==
    ~(f[i].op = "call" \/ mayHaveSideEffects(f[i]) \/ isTerminator(f[i]))

shouldRemoveTrivialDeadCode(f, bs, i) ==
    IF f[i].op = "call" \/ mayHaveSideEffects(f[i]) \/ isTerminator(f[i])
    THEN FALSE
    ELSE use_empty(f, bs, i)

\* Value::replaceAllUsesWith: every operand equal to old becomes new.
replaceAllUsesWith(f, old, new) ==
    [u \in DOMAIN f |->
        [f[u] EXCEPT !.ops = [k \in 1..Len(f[u].ops) |->
                                 IF f[u].ops[k] = old THEN new ELSE f[u].ops[k]]]]

\* Instruction::eraseFromParent on the node at index k of block b.
RemoveAt(s, k) == [j \in 1..(Len(s) - 1) |-> IF j < k THEN s[j] ELSE s[j + 1]]
eraseFromParent(bs, b, k) == [bs EXCEPT ![b] = RemoveAt(bs[b], k)]

\* SimplifyInstruction (LLVM): the existing value instruction i folds to, or
\* NoValue (nullptr).  X + 0 and 0 + X fold to X; nothing else of the model
\* folds.  (The functions read below have the constant on the right only.)
SimplifyInstruction(f, i) ==
    IF f[i].op = "add" /\ f[i].ops[2] = Zero THEN f[i].ops[1]
    ELSE IF f[i].op = "add" /\ f[i].ops[1] = Zero THEN f[i].ops[2]
    ELSE NoValue

----------------------------------------------------------------------------
\* Reading the module (parseIRFile in main): the instructions a block may be
\* given next, their operands among the arguments and the instructions read
\* so far.

ValueIds(f, ty) == {i \in DOMAIN f : f[i].ty = ty}

LoadChoices ==
    {Instr("load", ty, <<a>>, v) : ty \in Types, a \in PtrArgs, v \in BOOLEAN}
StoreChoices(f) ==
    {Instr("store", "void", <<x, a>>, FALSE) :
        x \in {Zero} \cup ValueIds(f, "i32") \cup ValueIds(f, "ptr"),
        a \in PtrArgs}
AddChoices(f) ==
    {Instr("add", "i32", <<x, y>>, FALSE) :
        x \in IntArgs \cup ValueIds(f, "i32"),
        y \in IntArgs \cup {Zero} \cup ValueIds(f, "i32")}
CallChoices == {Instr("call", "void", <<>>, FALSE)}
InstChoices(f) ==
    LoadChoices \cup StoreChoices(f) \cup AddChoices(f) \cup CallChoices
MemChoices(f) == LoadChoices \cup StoreChoices(f)

\* Control-flow graphs over nb blocks: edges go forward, every block but the
\* entry has a predecessor.
CFGs(nb) ==
    {g \in [1..nb -> SUBSET (1..nb)] :
        /\ \A b \in 1..nb : g[b] \subseteq (b + 1)..nb
        /\ \A b \in 2..nb : \E a \in 1..(b - 1) : b \in g[a]}

\* The blocks reached from the entry block on paths that avoid block a.
RECURSIVE ReachAvoiding(_, _, _, _)
ReachAvoiding(g, a, seen, n) ==
    IF n = 0 THEN seen
    ELSE ReachAvoiding(g, a, seen \cup (UNION {g[b] : b \in seen} \ {a}), n - 1)

\* Block a dominates block b: every path from the entry to b runs through a.
Dominates(g, a, b) ==
    \/ a = b
    \/ a = 1
    \/ b \notin ReachAvoiding(g, a, {1}, Cardinality(DOMAIN g))

BlockIn(bs, i) == CHOOSE b \in 1..Len(bs) : \E k \in 1..Len(bs[b]) : bs[b][k] = i

\* The verifier's rule on uses: a definition dominates its uses.
DefsDominateUses(f, bs, g) ==
    \A u \in DOMAIN f : \A k \in 1..Len(f[u].ops) :
        f[u].ops[k] \in DOMAIN f =>
            Dominates(g, BlockIn(bs, f[u].ops[k]), BlockIn(bs, u))

NextId(f) == FirstId + Cardinality(DOMAIN f)
TermId(f, b) == FirstId + Cardinality(DOMAIN f) + b - 1
Terminator(g, b) ==
    Instr(IF g[b] = {} THEN "ret" ELSE "br", "void", <<>>, FALSE)

----------------------------------------------------------------------------
ZeroCounters ==
    [CSEDead |-> 0, CSEElim |-> 0, CSESimplify |-> 0, CSELdElim |-> 0,
     CSEStore2Load |-> 0, CSEStElim |-> 0]

Passes == {"dce", "simplify", "load", "store"}

\* main() is about to read the module.
Init ==
    /\ inst = <<>>
    /\ blocks = <<<<>>>>
    /\ cfg = <<>>
    /\ inst0 = <<>>
    /\ blocks0 = <<>>
    /\ erased = {}
    /\ erased0 = {}
    /\ dead0 = 0
    /\ pc = "parse"
    /\ entry = "parse"
    /\ todo = <<>>
    /\ fi = 1
    /\ bbi = 1
    /\ it = 0
    /\ cur = NoValue
    /\ cnt = ZeroCounters
    /\ runs = 0
    /\ visited = <<>>
    /\ merged = {}
    /\ matchres = <<>>

\* The reader appends one instruction, of the set choices, to the block it is
\* reading, while the function has fewer than max.
ParseInto(choices, max) ==
    /\ pc = "parse"
    /\ Cardinality(DOMAIN inst) < max
    /\ \E r \in choices :
          /\ inst' = inst @@ (NextId(inst) :> r)
          /\ blocks' = [blocks EXCEPT ![Len(blocks)] = Append(@, NextId(inst))]
    /\ UNCHANGED <<cfg, erased, pc, todo, fi, bbi, it, cur, cnt, runs, visited,
                   merged, inst0, blocks0, erased0, dead0, entry, matchres>>

ParseInstruction == ParseInto(InstChoices(inst), MaxInsts)
ParseMemInstruction == ParseInto(MemChoices(inst), MaxMemInsts)

\* The reader starts the next block.
ParseBlock ==
    /\ pc = "parse"
    /\ Len(blocks) < MaxBlocks
    /\ blocks[Len(blocks)] # <<>>
    /\ blocks' = Append(blocks, <<>>)
    /\ UNCHANGED <<inst, cfg, erased, pc, todo, fi, bbi, it, cur, cnt, runs,
                   visited, merged, inst0, blocks0, erased0, dead0, entry, matchres>>

\* The module is read: every block ends in its terminator and the function is
\* well formed.  Control goes to one of the entry points in targets.
ParseEnd(targets) ==
    /\ pc = "parse"
    /\ Len(blocks) = 1 \/ blocks[Len(blocks)] # <<>>
    /\ \E g \in CFGs(Len(blocks)), p \in targets :
          LET f == inst @@ [i \in {TermId(inst, b) : b \in 1..Len(blocks)} |->
                               Terminator(g, i - NextId(inst) + 1)]
              bs == [b \in 1..Len(blocks) |-> Append(blocks[b], TermId(inst, b))]
          IN  /\ DefsDominateUses(f, bs, g)
              /\ inst' = f
              /\ blocks' = bs
              /\ cfg' = g
              /\ inst0' = f
              /\ blocks0' = bs
              /\ pc' = p
              /\ entry' = p
    /\ UNCHANGED <<erased, todo, fi, bbi, it, cur, cnt, runs, visited, merged,
                   erased0, dead0, matchres>>

\* main() calls the driver on the module it read.
Parsed == ParseEnd({"main"})

\* One sub-pass is called on a function.  The driver hands a sub-pass
\* whatever the earlier sub-passes leave, and each of them steps over the
\* instruction that follows one it erases: runCSEBasic turns
\* [dead; i1; dead; i2; ...] into [i1; i2; ...] whatever i1, i2, ... are.
PassCalled == ParseEnd(Passes)
LoadPassCalled == ParseEnd({"load"})

----------------------------------------------------------------------------
\* The for loops over the blocks (fi) and over a block's instructions (bbi):
\* the loop's ++bbi has produced index k of block b.  At end() the loop over
\* the blocks moves on; ++ applied to end() is undefined.
OuterNext(p, bs, b, k) ==
    /\ pc' = IF k > Len(bs[b]) + 1 THEN "ub" ELSE p
    /\ fi' = IF k = Len(bs[b]) + 1 THEN b + 1 ELSE b
    /\ bbi' = IF k = Len(bs[b]) + 1 THEN 1 ELSE k

Bump(c, name) == [c EXCEPT ![name] = @ + 1]

\* The index the sweep continues from after it erased the node at index k:
\* `++bbi` before the erase leaves the iterator on the node that followed
\* (index k once the node is gone), and the for loop's own ++bbi then steps
\* over that node.
IndexAfterErase(k) == k + 1

\* CommonSubexpressionElimination: reset five of the six counters and run the
\* four sub-passes in order.  CSEDead is not reset.
CommonSubexpressionElimination ==
    /\ \/ pc = "main"
       \/ pc = "done" /\ runs >= 1 /\ runs < MaxRuns
    /\ cnt' = [ZeroCounters EXCEPT !.CSEDead = cnt.CSEDead]
    /\ pc' = "dce"
    /\ todo' = <<"simplify", "load", "store">>
    /\ fi' = 1
    /\ bbi' = 1
    /\ runs' = runs + 1
    /\ erased0' = erased
    /\ dead0' = cnt.CSEDead
    /\ visited' = <<>>
    /\ UNCHANGED <<inst, blocks, cfg, erased, it, cur, merged, inst0, blocks0, entry, matchres>>

\* A sub-pass has run off the last block: the next sub-pass starts, or the
\* driver returns.
NextPass ==
    /\ pc \in Passes
    /\ fi > Len(blocks)
    /\ pc' = IF todo = <<>> THEN "done" ELSE Head(todo)
    /\ todo' = IF todo = <<>> THEN <<>> ELSE Tail(todo)
    /\ fi' = 1
    /\ bbi' = 1
    /\ visited' = <<>>
    /\ UNCHANGED <<inst, blocks, cfg, erased, it, cur, cnt, runs, merged,
                   inst0, blocks0, erased0, dead0, entry, matchres>>

\* One iteration of the innermost loop of runCSEBasic.
DceStep ==
    /\ pc = "dce"
    /\ fi <= Len(blocks)
    /\ LET i == blocks[fi][bbi]
           dead == shouldRemoveTrivialDeadCode(inst, blocks, i)
           bs == IF dead THEN eraseFromParent(blocks, fi, bbi) ELSE blocks
       IN  /\ blocks' = bs
           /\ erased' = IF dead THEN erased \cup {i} ELSE erased
           /\ cnt' = IF dead THEN Bump(cnt, "CSEDead") ELSE cnt
           /\ visited' = Append(visited, i)
           /\ OuterNext("dce", bs, fi, IF dead THEN IndexAfterErase(bbi) ELSE bbi + 1)
    /\ UNCHANGED <<inst, cfg, todo, it, cur, runs, merged, inst0, blocks0,
                   erased0, dead0, entry, matchres>>

\* One iteration of the innermost loop of SimplifyInstructionPass, with the
\* call of RunSimplifyInstruction.
SimplifyStep ==
    /\ pc = "simplify"
    /\ fi <= Len(blocks)
    /\ LET i == blocks[fi][bbi]
             result == SimplifyInstruction(inst, i)
             simplified == result # NoValue
             bs == IF simplified THEN eraseFromParent(blocks, fi, bbi) ELSE blocks
         IN  /\ inst' = IF simplified THEN replaceAllUsesWith(inst, i, result) ELSE inst
             /\ blocks' = bs
             /\ erased' = IF simplified THEN erased \cup {i} ELSE erased
             /\ cnt' = IF simplified THEN Bump(cnt, "CSESimplify") ELSE cnt
             /\ visited' = Append(visited, i)
             /\ OuterNext("simplify", bs, fi,
                          IF simplified THEN IndexAfterErase(bbi) ELSE bbi + 1)
    /\ UNCHANGED <<cfg, todo, it, cur, runs, merged, inst0, blocks0, erased0,
                   dead0, entry, matchres>>

\* The match test of the load scan without the isVolatile test.
LoadScanMatches_AnyLoad(f, L, n) ==
    isLoad(f[n]) /\ isLiteralMatch(f[L], f[n])

\* The tests of the scan of RemoveRedundantLoadAferLoad: L is the load the
\* scan started from, n the instruction under the iterator.
LoadScanMatches(f, L, n) ==
    isLoad(f[n]) /\ ~f[n].vol /\ isLiteralMatch(f[L], f[n])
LoadScanStops(f, n) ==
    ~(isLoad(f[n]) /\ ~f[n].vol) /\ isStore(f[n])

\* The instructions a scan is started from.
LoadScanStartsAt(f, i) == isLoad(f[i])
StoreScanStartsAt(f, i) == isStore(f[i])

\* The tests of the scan of RemoveRedundantStoreAndLoadAfterStore: S is the
\* store the scan started from.
StoreScanForwards(f, S, n) ==
    /\ isLoad(f[n]) /\ ~f[n].vol
    /\ f[n].ops[1] = S
    /\ f[n].ty = TypeOf(f, f[S].ops[1])
StoreScanStops(f, n) ==
    /\ ~(isLoad(f[n]) /\ ~f[n].vol)
    /\ (isStore(f[n]) \/ isLoad(f[n]) \/ mayHaveSideEffects(f[n]))

\* The scans' loop control: the iteration left the iterator at index k of
\* the block (after an erase, on the node that followed), stop tells a break
\* or return.  The loop's ++it comes next; at end() the scan returns and the
\* outer loop's ++bbi follows.
ScanNext(outer, scan, bs, stop, k) ==
    IF stop \/ k + 1 = Len(bs[fi]) + 1
    THEN /\ OuterNext(outer, bs, fi, bbi + 1)
         /\ it' = 0
         /\ cur' = NoValue
    ELSE /\ pc' = IF k + 1 > Len(bs[fi]) + 1 THEN "ub" ELSE scan
         /\ it' = k + 1
         /\ UNCHANGED <<fi, bbi, cur>>

\* One iteration of the innermost loop of EliminatRedundantLoadPass: a load
\* starts the scan (the ++it of RemoveRedundantLoadAferLoad).
LoadOuter ==
    /\ pc = "load"
    /\ fi <= Len(blocks)
    /\ LET i == blocks[fi][bbi]
       IN  IF LoadScanStartsAt(inst, i) /\ bbi + 1 <= Len(blocks[fi])
           THEN /\ pc' = "loadscan"
                /\ cur' = i
                /\ it' = bbi + 1
                /\ visited' = <<>>
                /\ UNCHANGED <<fi, bbi>>
           ELSE /\ OuterNext("load", blocks, fi, bbi + 1)
                /\ UNCHANGED <<it, cur, visited>>
    /\ UNCHANGED <<inst, blocks, cfg, erased, todo, cnt, runs, merged, inst0,
                   blocks0, erased0, dead0, entry, matchres>>

\* One iteration of the scan of RemoveRedundantLoadAferLoad.
LoadScan ==
    /\ pc = "loadscan"
    /\ LET n == blocks[fi][it]
           match == LoadScanMatches(inst, cur, n)
           bs == IF match THEN eraseFromParent(blocks, fi, it) ELSE blocks
       IN  /\ inst' = IF match THEN replaceAllUsesWith(inst, n, cur) ELSE inst
           /\ blocks' = bs
           /\ erased' = IF match THEN erased \cup {n} ELSE erased
           /\ cnt' = IF match THEN Bump(cnt, "CSELdElim") ELSE cnt
           /\ merged' = IF match THEN merged \cup {<<n, cur>>} ELSE merged
           /\ visited' = Append(visited, n)
           /\ ScanNext("load", "loadscan", bs, LoadScanStops(inst, n), it)
    /\ UNCHANGED <<cfg, todo, runs, inst0, blocks0, erased0, dead0, entry, matchres>>

\* One iteration of the innermost loop of EliminateLoadAndStorePass.
StoreOuter ==
    /\ pc = "store"
    /\ fi <= Len(blocks)
    /\ LET i == blocks[fi][bbi]
       IN  IF StoreScanStartsAt(inst, i) /\ bbi + 1 <= Len(blocks[fi])
           THEN /\ pc' = "storescan"
                /\ cur' = i
                /\ it' = bbi + 1
                /\ visited' = <<>>
                /\ UNCHANGED <<fi, bbi>>
           ELSE /\ OuterNext("store", blocks, fi, bbi + 1)
                /\ UNCHANGED <<it, cur, visited>>
    /\ UNCHANGED <<inst, blocks, cfg, erased, todo, cnt, runs, merged, inst0,
                   blocks0, erased0, dead0, entry, matchres>>

\* One iteration of the scan of RemoveRedundantStoreAndLoadAfterStore.
StoreScan ==
    /\ pc = "storescan"
    /\ LET n == blocks[fi][it]
           fwd == StoreScanForwards(inst, cur, n)
           bs == IF fwd THEN eraseFromParent(blocks, fi, it) ELSE blocks
       IN  /\ inst' = IF fwd THEN replaceAllUsesWith(inst, n, inst[cur].ops[1]) ELSE inst
           /\ blocks' = bs
           /\ erased' = IF fwd THEN erased \cup {n} ELSE erased
           /\ cnt' = IF fwd THEN Bump(cnt, "CSEStore2Load") ELSE cnt
           /\ visited' = Append(visited, n)
           /\ ScanNext("store", "storescan", bs, StoreScanStops(inst, n), it)
    /\ UNCHANGED <<cfg, todo, runs, merged, inst0, blocks0, erased0, dead0, entry, matchres>>

Next ==
    \/ ParseInstruction
    \/ ParseBlock
    \/ Parsed
    \/ CommonSubexpressionElimination
    \/ DceStep
    \/ SimplifyStep
    \/ LoadOuter
    \/ LoadScan
    \/ StoreOuter
    \/ StoreScan
    \/ NextPass

Spec == Init /\ [][Next]_vars

\* One sub-pass alone, on a function of one block.
NextInPass ==
    \/ ParseInstruction
    \/ PassCalled
    \/ DceStep
    \/ SimplifyStep
    \/ LoadOuter
    \/ LoadScan
    \/ StoreOuter
    \/ StoreScan
    \/ NextPass

SpecPass == Init /\ [][NextInPass]_vars

\* The load pass alone, on a block of loads and stores.
NextInLoadPass ==
    \/ ParseMemInstruction
    \/ LoadPassCalled
    \/ LoadOuter
    \/ LoadScan
    \/ NextPass

SpecLoad == Init /\ [][NextInLoadPass]_vars

----------------------------------------------------------------------------
\* isLiteralMatch on two arbitrary instructions.
OperandLists == UNION {[1..n -> Args] : n \in 0..MaxOperands}
MatchInputs ==
    {Instr(op, ty, ops, v) :
        op \in {"load", "add", "ret"}, ty \in Types, ops \in OperandLists,
        v \in BOOLEAN}

InitMatch ==
    /\ \E a \in MatchInputs, b \in MatchInputs :
          matchres = [a |-> a, b |-> b, called |-> FALSE,
                      ab |-> FALSE, ba |-> FALSE, aa |-> FALSE]
    /\ inst = <<>>
    /\ blocks = <<>>
    /\ cfg = <<>>
    /\ inst0 = <<>>
    /\ blocks0 = <<>>
    /\ erased = {}
    /\ erased0 = {}
    /\ dead0 = 0
    /\ pc = "match"
    /\ entry = "match"
    /\ todo = <<>>
    /\ fi = 1
    /\ bbi = 1
    /\ it = 0
    /\ cur = NoValue
    /\ cnt = ZeroCounters
    /\ runs = 0
    /\ visited = <<>>
    /\ merged = {}

CallIsLiteralMatch ==
    /\ pc = "match"
    /\ ~matchres.called
    /\ matchres' = [matchres EXCEPT
                      !.called = TRUE,
                      !.ab = isLiteralMatch(matchres.a, matchres.b),
                      !.ba = isLiteralMatch(matchres.b, matchres.a),
                      !.aa = isLiteralMatch(matchres.a, matchres.a)]
    /\ UNCHANGED <<inst, blocks, cfg, erased, pc, todo, fi, bbi, it, cur, cnt,
                   runs, visited, merged, inst0, blocks0, erased0, dead0, entry>>

SpecMatch == InitMatch /\ [][CallIsLiteralMatch]_vars

----------------------------------------------------------------------------
\* Properties.

Range(s) == {s[k] : k \in 1..Len(s)}
Operands(f, u) == Range(f[u].ops)

\* Where instruction i stood when the run started.
BlockOf0(i) == CHOOSE b \in 1..Len(blocks0) : i \in Range(blocks0[b])
Index0(i) == CHOOSE k \in 1..Len(blocks0[BlockOf0(i)]) : blocks0[BlockOf0(i)][k] = i
Index(b, i) == CHOOSE k \in 1..Len(blocks[b]) : blocks[b][k] = i

\* Every use of old that a live instruction had when the run started now
\* names new.
UsesRedirected(old, new) ==
    \A u \in Live(blocks) : \A k \in 1..Len(inst0[u].ops) :
        inst0[u].ops[k] = old => inst[u].ops[k] = new

\* a and b agree in opcode, result type, operand count and every operand.
SameStructure(a, b) ==
    /\ a.op = b.op
    /\ a.ty = b.ty
    /\ Len(a.ops) = Len(b.ops)
    /\ \A k \in 1..Len(a.ops) : k \in 1..Len(b.ops) /\ a.ops[k] = b.ops[k]

\* The store S of the run's input is directly followed by a non-volatile load
\* N of the address S writes, of the type of the value S stores.
ForwardablePair(S, N) ==
    /\ isStore(inst0[S])
    /\ isLoad(inst0[N]) /\ ~inst0[N].vol
    /\ BlockOf0(S) = BlockOf0(N)
    /\ Index0(N) = Index0(S) + 1
    /\ inst0[N].ops[1] = inst0[S].ops[2]
    /\ inst0[N].ty = TypeOf(inst0, inst0[S].ops[1])

\* C1: once the store pass has processed a block in which a store is directly
\* followed by a non-volatile load of the stored address and type, the load
\* is erased, its uses name the stored value, and the store-to-load counter
\* has gone up; by exactly one when the block is just [store; load].
C1_StoreToLoadForwarding ==
    (entry = "store" /\ pc = "done") =>
        \A S \in Live(blocks0), N \in Live(blocks0) :
            ForwardablePair(S, N) =>
                /\ N \in erased
                /\ N \notin Live(blocks)
                /\ UsesRedirected(N, inst0[S].ops[1])
                /\ cnt.CSEStore2Load >= 1
                /\ (Len(blocks0[BlockOf0(S)]) = 3 => cnt.CSEStore2Load = 1)

\* Some use of x that a live instruction had when the run started now names y.
MergedInto(x, y) ==
    \E u \in Live(blocks) : \E k \in 1..Len(inst0[u].ops) :
        inst0[u].ops[k] = x /\ inst[u].ops[k] = y

\* x and y, in different blocks of the function the driver is called on, are
\* literal matches that the CSE may merge; the sweeps that run first leave
\* them alone (both are used, neither folds).
CSEPair(x, y) ==
    /\ x # y
    /\ ~ignoreForCSE(inst0[x]) /\ ~ignoreForCSE(inst0[y])
    /\ isLiteralMatch(inst0[x], inst0[y])
    /\ BlockOf0(x) # BlockOf0(y)
    /\ ~use_empty(inst0, blocks0, x) /\ ~use_empty(inst0, blocks0, y)
    /\ SimplifyInstruction(inst0, x) = NoValue

\* C3: when the driver returns, of two literal-match instructions x and y in
\* different blocks neither is merged into the other if neither block
\* dominates the other, and x is merged into y (uses redirected, x erased,
\* CSEElim counted) if y's block dominates x's.
C3_CrossBlockDominanceScoping ==
    (entry = "main" /\ pc = "done") =>
        \A x \in Live(blocks0), y \in Live(blocks0) :
            CSEPair(x, y) =>
                /\ (/\ ~Dominates(cfg, BlockOf0(x), BlockOf0(y))
                    /\ ~Dominates(cfg, BlockOf0(y), BlockOf0(x)))
                       => ~MergedInto(x, y) /\ ~MergedInto(y, x)
                /\ Dominates(cfg, BlockOf0(y), BlockOf0(x))
                       => /\ x \in erased
                          /\ UsesRedirected(x, y)
                          /\ cnt.CSEElim >= 1

\* C4: a run of the driver on the output of an earlier run erases nothing and
\* counts nothing.
C4_PipelineIdempotent ==
    (entry = "main" /\ pc = "done" /\ runs >= 2) =>
        /\ erased = erased0
        /\ cnt.CSEDead = dead0
        /\ cnt.CSESimplify = 0
        /\ cnt.CSELdElim = 0
        /\ cnt.CSEStore2Load = 0

\* A store stood between L and N in the block the run started with.
StoreBetween0(L, N) ==
    \E k \in (Index0(L) + 1)..(Index0(N) - 1) :
        isStore(inst0[blocks0[BlockOf0(L)][k]])

\* C2: the load pass never erases a load N in favour of a load L when a store
\* lies between L and N in the block.
C2_LoadScanStopsAtStores ==
    entry = "load" =>
        \A m \in merged : ~StoreBetween0(m[2], m[1])

\* C5: the scan from a store stops at the first load it does not forward,
\* whatever address the load reads: as long as the scan goes on, it has
\* examined no load of another address than the store's.
C5_StoreScanStopsAtAnyLoad ==
    pc = "storescan" =>
        \A k \in 1..Len(visited) :
            isLoad(inst[visited[k]]) =>
                inst[visited[k]].ops[1] = inst[cur].ops[2]

\* Two non-volatile loads of block b that match each other, with no store
\* between them.
RedundantLoadsRemain(b) ==
    \E j \in 1..Len(blocks[b]), k \in 1..Len(blocks[b]) :
        /\ j < k
        /\ isLoad(inst[blocks[b][j]]) /\ ~inst[blocks[b][j]].vol
        /\ isLoad(inst[blocks[b][k]]) /\ ~inst[blocks[b][k]].vol
        /\ isLiteralMatch(inst[blocks[b][j]], inst[blocks[b][k]])
        /\ \A m \in (j + 1)..(k - 1) : ~isStore(inst[blocks[b][m]])

\* Block b of the run's input is a run of two or more non-volatile loads that
\* all match the first, and its terminator.
RunOfLoads0(b) ==
    /\ Len(blocks0[b]) >= 3
    /\ \A k \in 1..(Len(blocks0[b]) - 1) :
          /\ isLoad(inst0[blocks0[b][k]]) /\ ~inst0[blocks0[b][k]].vol
          /\ isLiteralMatch(inst0[blocks0[b][1]], inst0[blocks0[b][k]])

\* C6: after the load pass no two matching non-volatile loads remain in a
\* block without a store between them; of a store-free run of k such loads
\* one remains and the load counter has gone up by k - 1.
C6_RedundantLoadsCollapse ==
    (entry = "load" /\ pc = "done") =>
        /\ \A b \in 1..Len(blocks) : ~RedundantLoadsRemain(b)
        /\ \A b \in 1..Len(blocks0) :
              RunOfLoads0(b) =>
                  /\ Len(blocks[b]) = 2
                  /\ cnt.CSELdElim = Len(blocks0[b]) - 2

\* C7: isLiteralMatch(a, b) holds exactly when a and b have the same opcode,
\* type, operand count and operands in order; it is reflexive and symmetric.
C7_LiteralMatchIsStructuralEquality ==
    (pc = "match" /\ matchres.called) =>
        /\ matchres.ab <=> SameStructure(matchres.a, matchres.b)
        /\ matchres.aa
        /\ matchres.ab <=> matchres.ba

\* Two instructions with the same two operands of one type in the other
\* order have been compared and do not match.
C7_Witness ==
    /\ pc = "match" /\ matchres.called
    /\ matchres.a.op = matchres.b.op /\ matchres.a.ty = matchres.b.ty
    /\ Len(matchres.a.ops) = 2 /\ Len(matchres.b.ops) = 2
    /\ matchres.a.ops[1] = matchres.b.ops[2]
    /\ matchres.a.ops[2] = matchres.b.ops[1]
    /\ matchres.a.ops[1] # matchres.a.ops[2]
    /\ TypeOf(<<>>, matchres.a.ops[1]) = TypeOf(<<>>, matchres.a.ops[2])
    /\ ~matchres.ab

\* C8: a sweep examines every instruction its iterator has passed, each once:
\* an erasure makes it skip nothing and revisit nothing.
C8_TraversalResumesAfterErase ==
    /\ \A j \in 1..Len(visited), k \in 1..Len(visited) :
          visited[j] = visited[k] => j = k
    /\ pc \in {"dce", "simplify"} =>
          \A b \in 1..Len(blocks) : \A k \in 1..Len(blocks[b]) :
              (b < fi \/ (b = fi /\ k < bbi)) => blocks[b][k] \in Range(visited)
    /\ pc \in {"loadscan", "storescan"} =>
          \A k \in (bbi + 1)..(it - 1) : blocks[fi][k] \in Range(visited)

\* C9 as stated: the load pass scans from non-volatile loads only, redirects
\* no load to a volatile load and erases no volatile load.
C9_VolatileLoadsTakeNoPart ==
    entry = "load" =>
        /\ pc = "loadscan" => ~inst[cur].vol
        /\ \A m \in merged : ~inst[m[2]].vol
        /\ \A i \in erased : ~inst[i].vol

\* C9 amended: the load pass scans from every load, volatile or not; it
\* erases non-volatile loads only, each in favour of a load it matches.
C9_VolatileLoadNeverErased ==
    entry = "load" =>
        /\ pc = "loadscan" => isLoad(inst[cur])
        /\ \A i \in erased : isLoad(inst[i]) /\ ~inst[i].vol
        /\ \A m \in merged :
              /\ m[1] \in erased
              /\ isLoad(inst[m[2]])
              /\ isLiteralMatch(inst0[m[2]], inst0[m[1]])

\* The load pass has erased a non-volatile load in favour of a volatile one.
C9_Witness ==
    /\ entry = "load"
    /\ \E m \in merged : inst[m[2]].vol /\ ~inst[m[1]].vol /\ m[1] \in erased

\* C10: no instruction of the function has an erased instruction as operand.
C10_NoDanglingReference ==
    \A u \in Live(blocks) : Operands(inst, u) \cap erased = {}

\* An instruction that a live instruction used has been erased.
C10_Witness ==
    \E i \in erased : \E u \in Live(blocks) : i \in Operands(inst0, u)

====
